---- MODULE Spec2Model ----
(***************************************************************************)
(* Model of src/runtime.py: class Session (one bash REPL driven through    *)
(* pexpect) and class Runtime (the registry of sessions by name), and of   *)
(* src/src/swerex/runtime/remote.py: class RemoteRuntime (the HTTP client  *)
(* of the same contract).                                                  *)
(*                                                                         *)
(* Strings that travel over the terminal are sequences of tokens: a token  *)
(* is a chunk of text no pattern can match inside of ("hi", "0", the       *)
(* prompt "PS1", the newline "NL", ...).  A pexpect.expect blocks the      *)
(* caller until the shell has written a match or the timeout expires, so   *)
(* Session.start and Session.run are cut at their expect calls: pc is the  *)
(* expect the caller is blocked in, and the shell process runs             *)
(* concurrently (ShellStep).  A timeout is possible exactly when the       *)
(* stream holds no match.                                                  *)
(***************************************************************************)
EXTENDS Integers, Sequences, FiniteSets, TLC

\* ------------------------------------------------------------------ bounds
MaxProcs == 2       \* shell processes alive at the same time
MaxInq == 5         \* lines a shell may have pending after a sendline
MaxOut == 2         \* unread tokens a stream may hold when an operation starts

\* --------------------------------------------------------------- constants
Names == {"a", "b"}          \* session names callers use with the Runtime
Solo == "solo"               \* a Session object a caller holds directly
Refs == Names \cup {Solo}
None == 0                    \* Session.shell is None

PS1 == "PS1"                 \* Session._ps1, "SHELLPS1PREFIX"
NL == "NL"                   \* a newline on the stream
FI == "fully_initialized"
DRE == "doneremovingecho"
PAT == "PAT"                 \* a text the caller passes in Action.expect

Whitespace == {NL}

\* Lines written to the shell by Session itself.
LineInit == "echo 'fully_initialized'"
LineSetPs1 == "umask 002; export PS1; export PS2"
LineEmpty == ""
LineStatus == "echo $?"
LineUnecho == "stty -echo; echo 'doneremovingecho'; echo 'doneremovingecho'"

\* ------------------------------------------------------------------ Action
MkAction(c, e, ic, iq) ==
    [command |-> c, expect |-> e, is_interactive_command |-> ic, is_interactive_quit |-> iq]

NoAction == MkAction("", <<>>, FALSE, FALSE)

\* The commands callers run: "c0" prints hi and succeeds, "pat" prints PAT and
\* fails, "sub" starts a sub-program that prompts with PAT and reads lines
\* until "quit" (which bash itself does not know).
ActionSet ==
    { MkAction("c0", <<>>, FALSE, FALSE),
      MkAction("pat", <<PAT>>, FALSE, FALSE),
      MkAction("sub", <<PAT>>, TRUE, FALSE),
      MkAction("quit", <<>>, FALSE, TRUE) }

RuntimeActions == {MkAction("c0", <<>>, FALSE, FALSE)}

IsNormal(a) == ~a.is_interactive_command /\ ~a.is_interactive_quit

\* What a command prints and the status it leaves when bash runs it alone.
CmdOutput(c) ==
    CASE c = "c0" -> <<"hi", NL>>
      [] c = "pat" -> <<PAT, NL>>
      [] c = "quit" -> <<"err", NL>>
      [] OTHER -> <<>>

CmdStatus(c) == IF c \in {"pat", "quit"} THEN "1" ELSE "0"

\* ------------------------------------------------------------- str helpers
RECURSIVE Lstrip(_)
Lstrip(s) == IF s # <<>> /\ Head(s) \in Whitespace THEN Lstrip(Tail(s)) ELSE s

RECURSIVE Rstrip(_)
Rstrip(s) ==
    IF s # <<>> /\ s[Len(s)] \in Whitespace THEN Rstrip(SubSeq(s, 1, Len(s) - 1)) ELSE s

Strip(s) == Rstrip(Lstrip(s))

RemovePrefix(s, c) == IF s # <<>> /\ Head(s) = c THEN Tail(s) ELSE s

\* --------------------------------------------------------------- responses
Resp(k, t, out, code, reason, es, ok, exc) ==
    [kind |-> k, type |-> t, output |-> out, exit_code_raw |-> code,
     failure_reason |-> reason, expect_string |-> es, success |-> ok, exc |-> exc]

Observation(out, code, reason, es) ==
    Resp("return", "Observation", out, code, reason, es, TRUE, "")

CreateShellResponse(ok, reason, out) ==
    Resp("return", "CreateShellResponse", out, <<>>, reason, "", ok, "")

CloseResponse == Resp("return", "CloseResponse", <<>>, <<>>, "", "", TRUE, "")

Raise(exc) == Resp("raise", "", <<>>, <<>>, "", "", FALSE, exc)

NoResp == Resp("none", "", <<>>, <<>>, "", "", FALSE, "")

\* ------------------------------------------------------------------- state
VARIABLES
    sessions,       \* Runtime.sessions: a dict from name to Session
    solo,           \* a Session constructed by the caller itself
    procs,          \* the bash processes pexpect.spawn has created
    pc,             \* the expect call the caller is blocked in, or "idle"
    frame,          \* the locals of the operation in flight
    ret,            \* the last operation called and what it returned or raised
    last,           \* per session: how the latest operation on it ended
    threads,        \* callers inside Runtime.create_shell / Runtime.close at once
    remote          \* the RemoteRuntime client: its call in flight and last result

vars == <<sessions, solo, procs, pc, frame, ret, last, threads, remote>>

Session == [shell |-> None]

Pids == 1 .. MaxProcs

\* a slot no live process occupies
Dead == [st |-> "dead", fdopen |-> FALSE, mode |-> "bash", ps1set |-> FALSE,
         status |-> "0", inq |-> <<>>, out |-> <<>>, stray |-> FALSE]

\* pexpect.spawn("/bin/bash", echo=False)
Spawned == [Dead EXCEPT !.st = "alive", !.fdopen = TRUE]

\* prev: how the operation before this one ended on the same session;
\* sync: the shell sat at its sentinel prompt, nothing unread and nothing
\* pending, when the operation wrote its first line
NoFrame == [op |-> "", ref |-> Solo, act |-> NoAction, output |-> <<>>,
            expect_string |-> "", prev |-> "none", sync |-> FALSE]

Ret(op, r, a, resp, prev, sync) ==
    [op |-> op, ref |-> r, act |-> a, resp |-> resp, prev |-> prev, sync |-> sync]

\* two callers that may be inside the Runtime's methods at the same time
Threads == {"t1", "t2"}

\* a caller outside any method: op and name are its latest call, res how that
\* call ended, session the Session object it constructed at line 98, mine
\* whether the registry entry of name is that very object
IdleThread == [pc |-> "idle", op |-> "", name |-> "a", session |-> Session,
               mine |-> FALSE, res |-> "none"]

\* -------------------------------------------------- RemoteRuntime: replies
Reserved == 511              \* the status that announces a transported failure
Ok == 200

\* a class_path is the sequence of the names its dots separate
ClassPaths ==
    { <<"builtins", "ValueError">>,
      <<"builtins", "KeyboardInterrupt">>,
      <<"swerex", "runtime", "abstract", "SweRexception">>,
      <<"builtins", "NoSuchError">>,
      <<"notloaded", "Err">>,
      <<"Bare">> }

\* sys.modules of the client process and the attributes the modules have
Modules == {<<"builtins">>, <<"swerex", "runtime", "abstract">>}

Attrs(m) ==
    IF m = <<"builtins">> THEN {"ValueError", "KeyboardInterrupt"} ELSE {"SweRexception"}

\* classes that derive from BaseException but not from Exception
BaseOnly == {"KeyboardInterrupt"}

\* the dotted text of a module path, as KeyError reports it
Dotted(m) ==
    CASE m = <<>> -> ""
      [] m = <<"builtins">> -> "builtins"
      [] m = <<"notloaded">> -> "notloaded"
      [] OTHER -> "swerex.runtime.abstract"

Message == "boom"            \* the message a transported failure carries

\* what requests.get / requests.post comes back with: connected FALSE is a
\* requests.RequestException (host unreachable); body says whether the JSON
\* in the response has the shape the caller parses
Reply(connected, status, body, cp) ==
    [connected |-> connected, status |-> status, body |-> body,
     class_path |-> cp, message |-> IF status = Reserved THEN Message ELSE ""]

NoReply == Reply(TRUE, 0, "", <<>>)

Replies ==
    {Reply(FALSE, 0, "", <<>>)}
    \cup {Reply(TRUE, s, b, <<>>) : s \in {Ok, 304, 404}, b \in {"valid", "invalid"}}
    \cup {Reply(TRUE, Reserved, "valid", cp) : cp \in ClassPaths}

\* how a RemoteRuntime method ends
RResp(kind, type, exc, message, alive) ==
    [kind |-> kind, type |-> type, exc |-> exc, message |-> message, is_alive |-> alive]

RReturn(type) == RResp("return", type, "", "", FALSE)

IsAliveResponse(alive, message) == RResp("return", "IsAliveResponse", "", message, alive)

RRaise(exc, message) == RResp("raise", "", exc, message, FALSE)

NoExc == RResp("none", "", "", "", FALSE)

\* the client between calls: bundle is whether a temporary upload bundle
\* exists on disk; ret is the last call, its reply and how it ended
RemoteIdle == [pc |-> "idle", op |-> "", is_dir |-> FALSE, bundle |-> FALSE,
               ret |-> [op |-> "", is_dir |-> FALSE, bundled |-> FALSE,
                        reply |-> NoReply, resp |-> NoExc]]

Init ==
    /\ sessions = [n \in {} |-> Session]
    /\ solo = Session
    /\ procs = [p \in Pids |-> Dead]
    /\ pc = "idle"
    /\ frame = NoFrame
    /\ ret = Ret("", Solo, NoAction, NoResp, "none", FALSE)
    /\ last = [r \in Refs |-> "none"]
    /\ threads = [t \in Threads |-> IdleThread]
    /\ remote = RemoteIdle

Registered == DOMAIN sessions

Sess(r) == IF r = Solo THEN solo ELSE sessions[r]

FreePids == {p \in Pids : procs[p].st = "dead"}

NextPid == CHOOSE p \in FreePids : \A q \in FreePids : p <= q

Del(d, n) == [m \in (DOMAIN d) \ {n} |-> d[m]]

Put(d, n, s) == [m \in (DOMAIN d) \cup {n} |-> IF m = n THEN s ELSE d[m]]

\* ------------------------------------------------------- the shell process
Prompt(pr) == IF pr.ps1set THEN <<PS1>> ELSE <<>>

\* bash reads one line at its prompt, runs it and prompts again
BashRun(pr, line) ==
    CASE line = LineInit ->
            [pr EXCEPT !.out = @ \o <<FI, NL>> \o Prompt(pr), !.status = "0"]
      [] line = LineSetPs1 ->
            [pr EXCEPT !.ps1set = TRUE, !.out = @ \o <<PS1>>, !.status = "0"]
      [] line = LineEmpty ->
            [pr EXCEPT !.out = @ \o Prompt(pr)]
      [] line = LineStatus ->
            [pr EXCEPT !.out = @ \o <<pr.status, NL>> \o Prompt(pr), !.status = "0"]
      [] line = LineUnecho ->
            [pr EXCEPT !.out = @ \o <<DRE, NL, DRE, NL>> \o Prompt(pr), !.status = "0"]
      [] line = "sub" ->
            [pr EXCEPT !.mode = "sub", !.out = @ \o <<PAT>>]
      [] OTHER ->
            [pr EXCEPT !.out = @ \o CmdOutput(line) \o Prompt(pr), !.status = CmdStatus(line)]

\* the sub-program has the terminal: it reads the line, and exits on "quit";
\* stray: on its way out it leaves a duplicate prompt behind (lines 58-59, 71)
SubRun(pr, line, stray) ==
    IF line = "quit"
    THEN [pr EXCEPT !.mode = "bash", !.status = "0", !.stray = stray,
                    !.out = @ \o Prompt(pr) \o (IF stray THEN Prompt(pr) ELSE <<>>)]
    ELSE [pr EXCEPT !.out = @ \o <<PAT>>]

ShellStep(p) ==
    /\ procs[p].st = "alive"
    /\ procs[p].fdopen
    /\ procs[p].inq # <<>>
    /\ LET pr == [procs[p] EXCEPT !.inq = Tail(@)]
           line == Head(procs[p].inq)
       IN IF pr.mode = "sub"
          THEN \E stray \in BOOLEAN : procs' = [procs EXCEPT ![p] = SubRun(pr, line, stray)]
          ELSE procs' = [procs EXCEPT ![p] = BashRun(pr, line)]
    /\ UNCHANGED <<sessions, solo, pc, frame, ret, last, threads, remote>>

Sync(p) ==
    /\ procs[p].inq = <<>>
    /\ procs[p].out = <<>>
    /\ procs[p].mode = "bash"
    /\ procs[p].ps1set

\* ---------------------------------------------------------- pexpect.expect
\* index of the first token of s that one of pats matches, 0 when none does
FirstMatch(s, pats) ==
    LET I == {i \in 1 .. Len(s) : s[i] \in pats}
    IN IF I = {} THEN 0 ELSE CHOOSE i \in I : \A j \in I : i <= j

Before(s, i) == SubSeq(s, 1, i - 1)

After(s, i) == SubSeq(s, i + 1, Len(s))

Range(s) == {s[i] : i \in 1 .. Len(s)}

\* the stream after expect consumed through the match at i, then lines sent
Consume(p, i, lines) == [procs EXCEPT ![p].out = After(@, i), ![p].inq = @ \o lines]

\* an operation that had nothing to wait for ends in the step that calls it
Return(op, r, a, resp) ==
    /\ pc' = "idle"
    /\ frame' = NoFrame
    /\ ret' = Ret(op, r, a, resp, last[r], FALSE)

\* an operation that waited ends: kind is how it ended on its session
Complete(resp, kind) ==
    /\ pc' = "idle"
    /\ frame' = NoFrame
    /\ ret' = Ret(frame.op, frame.ref, frame.act, resp, frame.prev, frame.sync)
    /\ last' = [last EXCEPT ![frame.ref] = kind]

\* an operation may start on a shell only while the model's queues have room
Room(p) == Len(procs[p].inq) + 3 <= MaxInq /\ Len(procs[p].out) <= MaxOut

\* ----------------------------------------------------------- Session.start
\* lines 19-25: spawn bash and send the startup probe
SessionStart(op, r) ==
    /\ FreePids # {}
    /\ procs' = [procs EXCEPT ![NextPid] = [Spawned EXCEPT !.inq = <<LineInit>>]]
    /\ pc' = "start_init"
    /\ frame' = [NoFrame EXCEPT !.op = op, !.ref = r, !.prev = last[r]]
    /\ UNCHANGED <<ret, last>>

\* lines 26-31
StartExpectInit ==
    /\ pc = "start_init"
    /\ LET p == Sess(frame.ref).shell
           s == procs[p].out
           i == FirstMatch(s, {FI})
       IN IF i = 0
          THEN /\ Complete(CreateShellResponse(FALSE, "timeout while initializing shell", <<>>),
                           "start_failed")
               /\ UNCHANGED procs
          ELSE /\ procs' = Consume(p, i, <<LineSetPs1>>)
               /\ frame' = [frame EXCEPT !.output = Before(s, i)]
               /\ pc' = "start_ps1"
               /\ UNCHANGED <<ret, last>>
    /\ UNCHANGED <<sessions, solo>>
    /\ UNCHANGED <<threads, remote>>

\* lines 32-37
StartExpectPs1 ==
    /\ pc = "start_ps1"
    /\ LET p == Sess(frame.ref).shell
           s == procs[p].out
           i == FirstMatch(s, {PS1})
       IN IF i = 0
          THEN /\ Complete(CreateShellResponse(FALSE, "timeout while setting PS1", <<>>),
                           "start_failed")
               /\ UNCHANGED procs
          ELSE /\ procs' = Consume(p, i, <<>>)
               /\ Complete(CreateShellResponse(TRUE, "",
                               frame.output \o <<NL, "---", NL>> \o Before(s, i)),
                           "start_ok")
    /\ UNCHANGED <<sessions, solo>>
    /\ UNCHANGED <<threads, remote>>

\* a caller starts the Session it constructed, once while it holds no shell
\* (as Runtime.create_shell does, lines 98-100)
SoloStart ==
    /\ pc = "idle"
    /\ solo.shell = None
    /\ SessionStart("Session.start", Solo)
    /\ solo' = [solo EXCEPT !.shell = NextPid]
    /\ UNCHANGED sessions
    /\ UNCHANGED <<threads, remote>>

\* create_shell without its assertion: the new Session replaces the entry
CreateShellOverwrite(n) ==
    /\ pc = "idle"
    /\ SessionStart("create_shell", n)
    /\ sessions' = Put(sessions, n, [Session EXCEPT !.shell = NextPid])
    /\ UNCHANGED solo
    /\ UNCHANGED <<threads, remote>>

\* Runtime.create_shell, lines 96-100
CreateShell(n) ==
    /\ pc = "idle"
    /\ IF n \in Registered
       THEN /\ Return("create_shell", n, NoAction, Raise("AssertionError"))
            /\ UNCHANGED <<sessions, solo, procs, last>>
       ELSE /\ SessionStart("create_shell", n)
            /\ sessions' = Put(sessions, n, [Session EXCEPT !.shell = NextPid])
            /\ UNCHANGED solo
    /\ UNCHANGED <<threads, remote>>

\* ------------------------------------------------------------- Session.run
\* Session.run without the guard of line 40: None has no sendline
SessionRunUnguarded(op, r, a) ==
    /\ IF Sess(r).shell = None \/ ~procs[Sess(r).shell].fdopen
       THEN /\ Return(op, r, a, Raise(IF Sess(r).shell = None THEN "AttributeError"
                                                                ELSE "OSError"))
            /\ last' = [last EXCEPT ![r] = "run"]
            /\ UNCHANGED procs
       ELSE LET p == Sess(r).shell
            IN /\ Room(p)
               /\ procs' = [procs EXCEPT ![p].inq = @ \o <<a.command>>]
               /\ pc' = "run_cmd"
               /\ frame' = [NoFrame EXCEPT !.op = op, !.ref = r, !.act = a,
                                           !.prev = last[r], !.sync = Sync(p)]
               /\ UNCHANGED <<ret, last>>
    /\ UNCHANGED <<sessions, solo>>

\* lines 40-42: the guard and the sendline of the command
SessionRun(op, r, a) ==
    /\ IF Sess(r).shell = None
       THEN /\ Return(op, r, a, Observation(<<>>, <<"-300">>, "shell not initialized", ""))
            /\ last' = [last EXCEPT ![r] = "run"]
            /\ UNCHANGED procs
       ELSE LET p == Sess(r).shell
            IN IF ~procs[p].fdopen
               THEN /\ Return(op, r, a, Raise("OSError"))
                    /\ last' = [last EXCEPT ![r] = "run"]
                    /\ UNCHANGED procs
               ELSE /\ Room(p)
                    /\ procs' = [procs EXCEPT ![p].inq = @ \o <<a.command>>]
                    /\ pc' = "run_cmd"
                    /\ frame' = [NoFrame EXCEPT !.op = op, !.ref = r, !.act = a,
                                                !.prev = last[r], !.sync = Sync(p)]
                    /\ UNCHANGED <<ret, last>>
    /\ UNCHANGED <<sessions, solo>>

\* lines 43-52, 65-70, 74-78: the wait for the command and what follows it
RunExpectCommand ==
    /\ pc = "run_cmd"
    /\ LET a == frame.act
           p == Sess(frame.ref).shell
           s == procs[p].out
           i == FirstMatch(s, Range(a.expect) \cup {PS1})
       IN IF i = 0
          THEN /\ Complete(Observation(<<>>, <<"-100">>, "timeout while running command", ""),
                           IF frame.sync THEN "run_timeout" ELSE "run_timeout_unsync")
               /\ UNCHANGED procs
          ELSE IF IsNormal(a)
          THEN /\ procs' = Consume(p, i, <<LineEmpty, LineStatus>>)
               /\ frame' = [frame EXCEPT !.output = Before(s, i), !.expect_string = s[i]]
               /\ pc' = "run_status"
               /\ UNCHANGED <<ret, last>>
          ELSE IF a.is_interactive_quit
          THEN IF a.is_interactive_command
               THEN /\ procs' = Consume(p, i, <<>>)
                    /\ Complete(Raise("AssertionError"), "run")
               ELSE /\ procs' = Consume(p, i, <<LineUnecho>>)
                    /\ frame' = [frame EXCEPT !.output = Before(s, i), !.expect_string = s[i]]
                    /\ pc' = "run_done"
                    /\ UNCHANGED <<ret, last>>
          ELSE /\ procs' = Consume(p, i, <<>>)
               /\ Complete(Observation(Strip(RemovePrefix(Lstrip(Before(s, i)), a.command)),
                                       <<"0">>, "", s[i]),
                           "run_interactive")
    /\ UNCHANGED <<sessions, solo>>
    /\ UNCHANGED <<threads, remote>>

\* the exit-status wait without the second try of lines 61-64
RunExpectStatusOnce ==
    /\ pc = "run_status"
    /\ LET p == Sess(frame.ref).shell
           s == procs[p].out
           i == FirstMatch(s, {PS1})
       IN IF i = 0
          THEN /\ Complete(Observation(<<>>, <<"-200">>, "timeout while getting exit code", ""),
                           "run")
               /\ UNCHANGED procs
          ELSE /\ procs' = Consume(p, i, <<>>)
               /\ Complete(Observation(frame.output, Strip(Before(s, i)), "",
                                       frame.expect_string),
                           "run")
    /\ UNCHANGED <<sessions, solo>>
    /\ UNCHANGED <<threads, remote>>

\* lines 53-61 and 78
RunExpectStatus ==
    /\ pc = "run_status"
    /\ LET p == Sess(frame.ref).shell
           s == procs[p].out
           i == FirstMatch(s, {PS1})
       IN IF i = 0
          THEN /\ Complete(Observation(<<>>, <<"-200">>, "timeout while getting exit code", ""),
                           "run")
               /\ UNCHANGED procs
          ELSE /\ procs' = Consume(p, i, <<>>)
               /\ IF Strip(Strip(Before(s, i))) = <<>>
                  THEN /\ pc' = "run_status_again"
                       /\ UNCHANGED <<frame, ret, last>>
                  ELSE Complete(Observation(frame.output, Strip(Before(s, i)), "",
                                            frame.expect_string),
                                "run")
    /\ UNCHANGED <<sessions, solo>>
    /\ UNCHANGED <<threads, remote>>

\* lines 62-64 and 78: the second wait is outside any try
RunExpectStatusAgain ==
    /\ pc = "run_status_again"
    /\ LET p == Sess(frame.ref).shell
           s == procs[p].out
           i == FirstMatch(s, {PS1})
       IN IF i = 0
          THEN /\ Complete(Raise("TIMEOUT"), "run")
               /\ UNCHANGED procs
          ELSE /\ procs' = Consume(p, i, <<>>)
               /\ Complete(Observation(frame.output, Strip(Before(s, i)), "",
                                       frame.expect_string),
                           "run")
    /\ UNCHANGED <<sessions, solo>>
    /\ UNCHANGED <<threads, remote>>

\* line 72
RunExpectDone ==
    /\ pc = "run_done"
    /\ LET p == Sess(frame.ref).shell
           i == FirstMatch(procs[p].out, {DRE})
       IN IF i = 0
          THEN /\ Complete(Raise("TIMEOUT"), "run")
               /\ UNCHANGED procs
          ELSE /\ procs' = Consume(p, i, <<>>)
               /\ pc' = "run_prompt"
               /\ UNCHANGED <<frame, ret, last>>
    /\ UNCHANGED <<sessions, solo>>
    /\ UNCHANGED <<threads, remote>>

\* lines 73 and 78
RunExpectPrompt ==
    /\ pc = "run_prompt"
    /\ LET p == Sess(frame.ref).shell
           i == FirstMatch(procs[p].out, {PS1})
       IN IF i = 0
          THEN /\ Complete(Raise("TIMEOUT"), "run")
               /\ UNCHANGED procs
          ELSE /\ procs' = Consume(p, i, <<>>)
               /\ Complete(Observation(frame.output, <<"0">>, "", frame.expect_string),
                           "run_quit")
    /\ UNCHANGED <<sessions, solo>>
    /\ UNCHANGED <<threads, remote>>

\* a caller runs an action on the Session it holds
SoloRun(a) ==
    /\ pc = "idle"
    /\ SessionRun("Session.run", Solo, a)
    /\ UNCHANGED <<threads, remote>>

\* Runtime.run looking the name up with a default instead of indexing
RuntimeRunLenient(n, a) ==
    /\ pc = "idle"
    /\ IF n \notin Registered
       THEN /\ Return("Runtime.run", n, a,
                      Observation(<<>>, <<"-300">>, "shell not initialized", ""))
            /\ UNCHANGED <<sessions, solo, procs, last>>
       ELSE SessionRun("Runtime.run", n, a)
    /\ UNCHANGED <<threads, remote>>

\* Runtime.run, lines 102-103
RuntimeRun(n, a) ==
    /\ pc = "idle"
    /\ IF n \notin Registered
       THEN /\ Return("Runtime.run", n, a, Raise("KeyError"))
            /\ UNCHANGED <<sessions, solo, procs, last>>
       ELSE SessionRun("Runtime.run", n, a)
    /\ UNCHANGED <<threads, remote>>

\* Session.close without line 84: the closed shell stays in the Session
SessionCloseKeepsShell(s, terminated) ==
    IF s.shell = None
    THEN [session |-> s, procs |-> procs, resp |-> CloseResponse]
    ELSE IF terminated
    THEN [session |-> s,
          procs |-> [procs EXCEPT ![s.shell] = Dead],
          resp |-> CloseResponse]
    ELSE [session |-> s,
          procs |-> [procs EXCEPT ![s.shell].fdopen = FALSE],
          resp |-> Raise("ExceptionPexpect")]

\* ----------------------------------------------------------- Session.close
\* lines 80-85 on Session s; terminated: whether shell.close() could end the
\* child (pexpect raises when it cannot, having closed the descriptor)
SessionClose(s, terminated) ==
    IF s.shell = None
    THEN [session |-> s, procs |-> procs, resp |-> CloseResponse]
    ELSE IF terminated
    THEN [session |-> [s EXCEPT !.shell = None],
          procs |-> [procs EXCEPT ![s.shell] = Dead],
          resp |-> CloseResponse]
    ELSE [session |-> s,
          procs |-> [procs EXCEPT ![s.shell].fdopen = FALSE],
          resp |-> Raise("ExceptionPexpect")]

CloseKind(resp) == IF resp.kind = "raise" THEN "close_failed" ELSE "closed"

SoloClose ==
    /\ pc = "idle"
    /\ \E terminated \in BOOLEAN :
          LET c == SessionClose(solo, terminated)
          IN /\ solo' = c.session
             /\ procs' = c.procs
             /\ Return("Session.close", Solo, NoAction, c.resp)
             /\ last' = [last EXCEPT ![Solo] = CloseKind(c.resp)]
    /\ UNCHANGED sessions
    /\ UNCHANGED <<threads, remote>>

\* Runtime.close that removes the entry whatever Session.close did
RuntimeCloseAlwaysDels(n) ==
    /\ pc = "idle"
    /\ IF n \notin Registered
       THEN /\ Return("Runtime.close", n, NoAction, Raise("KeyError"))
            /\ UNCHANGED <<sessions, procs, last>>
       ELSE \E terminated \in BOOLEAN :
               LET c == SessionClose(sessions[n], terminated)
               IN /\ procs' = c.procs
                  /\ Return("Runtime.close", n, NoAction, c.resp)
                  /\ last' = [last EXCEPT ![n] = CloseKind(c.resp)]
                  /\ sessions' = Del(sessions, n)
    /\ UNCHANGED solo
    /\ UNCHANGED <<threads, remote>>

\* Runtime.close without line 107: the closed Session stays in the registry
RuntimeCloseKeepsEntry(n) ==
    /\ pc = "idle"
    /\ IF n \notin Registered
       THEN /\ Return("Runtime.close", n, NoAction, Raise("KeyError"))
            /\ UNCHANGED <<sessions, procs, last>>
       ELSE \E terminated \in BOOLEAN :
               LET c == SessionClose(sessions[n], terminated)
               IN /\ procs' = c.procs
                  /\ Return("Runtime.close", n, NoAction, c.resp)
                  /\ last' = [last EXCEPT ![n] = CloseKind(c.resp)]
                  /\ sessions' = [sessions EXCEPT ![n] = c.session]
    /\ UNCHANGED solo
    /\ UNCHANGED <<threads, remote>>

\* Runtime.close, lines 105-108
RuntimeClose(n) ==
    /\ pc = "idle"
    /\ IF n \notin Registered
       THEN /\ Return("Runtime.close", n, NoAction, Raise("KeyError"))
            /\ UNCHANGED <<sessions, procs, last>>
       ELSE \E terminated \in BOOLEAN :
               LET c == SessionClose(sessions[n], terminated)
               IN /\ procs' = c.procs
                  /\ Return("Runtime.close", n, NoAction, c.resp)
                  /\ last' = [last EXCEPT ![n] = CloseKind(c.resp)]
                  /\ sessions' = IF c.resp.kind = "raise"
                                 THEN [sessions EXCEPT ![n] = c.session]
                                 ELSE Del(sessions, n)
    /\ UNCHANGED solo
    /\ UNCHANGED <<threads, remote>>

\* ------------------------------------------- Runtime under concurrent callers
\* Runtime takes no lock: a caller may be preempted between any two lines of
\* create_shell and close.  Callers keep the rule that at most one close is in
\* flight per name.
Others(t, n) == {u \in Threads \ {t} : threads[u].name = n}

\* a caller enters create_shell or close
ThreadCall(t, op, n) ==
    /\ threads[t].pc = "idle"
    /\ op = "close" => \A u \in Others(t, n) : threads[u].pc = "idle" \/ threads[u].op # "close"
    /\ threads' = [threads EXCEPT ![t] =
                      [IdleThread EXCEPT !.pc = IF op = "create_shell" THEN "assert" ELSE "lookup",
                                         !.op = op, !.name = n]]
    /\ UNCHANGED <<sessions, solo, procs, pc, frame, ret, last, remote>>

\* line 97 (and line 98: the new Session)
CreateAssert(t) ==
    /\ threads[t].pc = "assert"
    /\ threads' = [threads EXCEPT ![t] =
                      IF threads[t].name \in Registered
                      THEN [@ EXCEPT !.pc = "idle", !.res = "AssertionError"]
                      ELSE [@ EXCEPT !.pc = "register", !.session = Session]]
    /\ UNCHANGED <<sessions, solo, procs, pc, frame, ret, last, remote>>

\* line 99
CreateRegister(t) ==
    /\ threads[t].pc = "register"
    /\ sessions' = Put(sessions, threads[t].name, threads[t].session)
    /\ threads' = [u \in Threads |->
                      IF u = t THEN [threads[u] EXCEPT !.pc = "start", !.mine = TRUE]
                      ELSE IF u \in Others(t, threads[t].name)
                      THEN [threads[u] EXCEPT !.mine = FALSE]
                      ELSE threads[u]]
    /\ UNCHANGED <<solo, procs, pc, frame, ret, last, remote>>

\* line 100: Session.start on the caller's own Session, its waits taken as
\* one step that succeeds or times out
CreateStart(t) ==
    /\ threads[t].pc = "start"
    /\ FreePids # {}
    /\ procs' = [procs EXCEPT ![NextPid] = Spawned]
    /\ \E ok \in BOOLEAN :
          LET s == [threads[t].session EXCEPT !.shell = NextPid]
              n == threads[t].name
          IN /\ threads' = [u \in Threads |->
                               IF u = t
                               THEN [threads[u] EXCEPT !.session = s, !.pc = "idle",
                                        !.res = IF ok THEN "start_ok" ELSE "start_failed"]
                               ELSE IF u \in Others(t, n) /\ threads[u].mine /\ threads[t].mine
                                        /\ threads[u].pc # "idle"
                               THEN [threads[u] EXCEPT !.session = s]
                               ELSE threads[u]]
             /\ sessions' = IF threads[t].mine /\ n \in Registered
                            THEN [sessions EXCEPT ![n] = s] ELSE sessions
    /\ UNCHANGED <<solo, pc, frame, ret, last, remote>>

\* line 106: the lookup
CloseLookup(t) ==
    /\ threads[t].pc = "lookup"
    /\ threads' = [threads EXCEPT ![t] =
                      IF threads[t].name \notin Registered
                      THEN [@ EXCEPT !.pc = "idle", !.res = "KeyError"]
                      ELSE [@ EXCEPT !.pc = "close", !.mine = TRUE,
                                     !.session = sessions[threads[t].name]]]
    /\ UNCHANGED <<sessions, solo, procs, pc, frame, ret, last, remote>>

\* line 106: Session.close on the Session looked up
CloseSession(t) ==
    /\ threads[t].pc = "close"
    /\ \E terminated \in BOOLEAN :
          LET c == SessionClose(threads[t].session, terminated)
              n == threads[t].name
              raised == c.resp.kind = "raise"
          IN /\ procs' = c.procs
             /\ threads' = [u \in Threads |->
                               IF u = t
                               THEN [threads[u] EXCEPT !.session = c.session,
                                        !.pc = IF raised THEN "idle" ELSE "del",
                                        !.res = IF raised THEN "ExceptionPexpect" ELSE @]
                               ELSE IF u \in Others(t, n) /\ threads[u].mine /\ threads[t].mine
                                        /\ threads[u].pc # "idle"
                               THEN [threads[u] EXCEPT !.session = c.session]
                               ELSE threads[u]]
             /\ sessions' = IF threads[t].mine /\ n \in Registered
                            THEN [sessions EXCEPT ![n] = c.session] ELSE sessions
    /\ UNCHANGED <<solo, pc, frame, ret, last, remote>>

\* line 107
CloseDel(t) ==
    /\ threads[t].pc = "del"
    /\ LET n == threads[t].name
       IN IF n \notin Registered
          THEN /\ threads' = [threads EXCEPT ![t].pc = "idle", ![t].res = "KeyError",
                                             ![t].mine = FALSE]
               /\ UNCHANGED sessions
          ELSE /\ sessions' = Del(sessions, n)
               /\ threads' = [u \in Threads |->
                                 IF u = t
                                 THEN [threads[u] EXCEPT !.pc = "idle", !.res = "closed",
                                                         !.mine = FALSE]
                                 ELSE IF u \in Others(t, n)
                                 THEN [threads[u] EXCEPT !.mine = FALSE]
                                 ELSE threads[u]]
    /\ UNCHANGED <<solo, procs, pc, frame, ret, last, remote>>

\* ----------------------------------------------------------- RemoteRuntime
\* lines 52-53: rpartition(".") of the class_path
Rpartition(cp) ==
    IF cp = <<>> THEN [module |-> <<>>, exc_name |-> ""]
    ELSE [module |-> SubSeq(cp, 1, Len(cp) - 1), exc_name |-> cp[Len(cp)]]

\* _handle_transfer_exception, lines 48-57: the exception it raises.
\* sys.modules[module] raises KeyError, which line 54 does not catch.
HandleTransferException(cp, message) ==
    LET r == Rpartition(cp)
    IN IF r.module \notin Modules
       THEN RRaise("KeyError", Dotted(r.module))
       ELSE IF r.exc_name \notin Attrs(r.module)
       THEN RRaise("SweRexception", message)
       ELSE RRaise(r.exc_name, message)

\* response.raise_for_status(): HTTPError for a 4xx or 5xx status
RaiseForStatus(reply) ==
    IF 400 <= reply.status /\ reply.status < 600
    THEN RRaise("HTTPError", "status") ELSE NoExc

\* _handle_response_errors, lines 59-63: what it raises, NoExc when nothing
HandleResponseErrors(reply) ==
    IF reply.status = Reserved
    THEN HandleTransferException(reply.class_path, reply.message)
    ELSE RaiseForStatus(reply)

\* Type(**response.json()): a body of another shape raises a ValueError
Parse(type, reply) ==
    IF reply.body = "valid" THEN RReturn(type) ELSE RRaise("ValueError", "body")

\* the result type each request method builds from the body
ResultType(op) ==
    CASE op = "create_session" -> "CreateSessionResponse"
      [] op = "run_in_session" -> "Observation"
      [] op = "close_session" -> "CloseSessionResponse"
      [] op = "execute" -> "CommandResponse"
      [] op = "read_file" -> "ReadFileResponse"
      [] op = "write_file" -> "WriteFileResponse"
      [] op = "upload" -> "UploadResponse"
      [] OTHER -> "None"

\* the methods of lines 102-126
PlainOps == {"run_in_session", "close_session", "execute", "read_file", "write_file"}

RemoteOps == {"is_alive", "create_session", "upload", "close"} \cup PlainOps

\* a method sends its request and blocks in requests.get / requests.post;
\* upload of a directory has made its bundle by then (lines 129-135)
RemoteCall(op, is_dir) ==
    /\ remote.pc = "idle"
    /\ is_dir => op = "upload"
    /\ remote' = [remote EXCEPT !.pc = "wait", !.op = op, !.is_dir = is_dir,
                                !.bundle = is_dir]
    /\ UNCHANGED <<sessions, solo, procs, pc, frame, ret, last, threads>>

\* the method in flight ends with resp; leaving the with block of line 131
\* removes the bundle
RemoteDone(reply, resp, bundle) ==
    /\ remote' = [remote EXCEPT !.pc = "idle", !.bundle = bundle,
                                !.ret = [op |-> remote.op, is_dir |-> remote.is_dir,
                                         bundled |-> remote.bundle,
                                         reply |-> reply, resp |-> resp]]
    /\ UNCHANGED <<sessions, solo, procs, pc, frame, ret, last, threads>>

\* the outcome of a method that calls _handle_response_errors and parses
Handled(op, reply) ==
    IF ~reply.connected THEN RRaise("ConnectionError", "unreachable")
    ELSE IF HandleResponseErrors(reply).kind = "raise" THEN HandleResponseErrors(reply)
    ELSE Parse(ResultType(op), reply)

\* is_alive whose handlers are missing: the failure of the probe propagates
IsAliveUncaught(reply) ==
    /\ remote.pc = "wait"
    /\ remote.op = "is_alive"
    /\ RemoteDone(reply,
                  IF ~reply.connected THEN RRaise("ConnectionError", "unreachable")
                  ELSE IF reply.status = Ok
                  THEN (IF reply.body = "valid" THEN IsAliveResponse(TRUE, "")
                                                ELSE RRaise("ValueError", "body"))
                  ELSE IF reply.status = Reserved
                  THEN HandleTransferException(reply.class_path, reply.message)
                  ELSE IF reply.body = "valid" THEN IsAliveResponse(FALSE, "Status code")
                  ELSE RRaise("ValueError", "body"),
                  FALSE)

\* is_alive, lines 65-92: everything an Exception is answers "not alive"
IsAlive(reply) ==
    /\ remote.pc = "wait"
    /\ remote.op = "is_alive"
    /\ LET failed == IsAliveResponse(FALSE, "Failed to connect")
           exc == HandleTransferException(reply.class_path, reply.message)
       IN RemoteDone(reply,
                     IF ~reply.connected THEN failed
                     ELSE IF reply.status = Ok
                     THEN (IF reply.body = "valid" THEN IsAliveResponse(TRUE, "") ELSE failed)
                     ELSE IF reply.status = Reserved
                     THEN (IF exc.exc \in BaseOnly THEN exc ELSE failed)
                     ELSE IF reply.body = "valid" THEN IsAliveResponse(FALSE, "Status code")
                     ELSE failed,
                     FALSE)

\* create_session, lines 97-100: raise_for_status alone
CreateSession(reply) ==
    /\ remote.pc = "wait"
    /\ remote.op = "create_session"
    /\ RemoteDone(reply,
                  IF ~reply.connected THEN RRaise("ConnectionError", "unreachable")
                  ELSE IF RaiseForStatus(reply).kind = "raise" THEN RaiseForStatus(reply)
                  ELSE Parse(ResultType("create_session"), reply),
                  FALSE)

\* run_in_session .. write_file, lines 102-126
Request(reply) ==
    /\ remote.pc = "wait"
    /\ remote.op \in PlainOps
    /\ RemoteDone(reply, Handled(remote.op, reply), FALSE)

\* upload that removes its bundle only after a successful transfer
UploadLeaky(reply) ==
    /\ remote.pc = "wait"
    /\ remote.op = "upload"
    /\ RemoteDone(reply, Handled("upload", reply),
                  remote.bundle /\ Handled("upload", reply).kind = "raise")

\* upload, lines 128-144
Upload(reply) ==
    /\ remote.pc = "wait"
    /\ remote.op = "upload"
    /\ RemoteDone(reply, Handled("upload", reply), FALSE)

\* close, lines 146-148: nothing is parsed and nothing returned
RemoteClose(reply) ==
    /\ remote.pc = "wait"
    /\ remote.op = "close"
    /\ RemoteDone(reply,
                  IF ~reply.connected THEN RRaise("ConnectionError", "unreachable")
                  ELSE IF HandleResponseErrors(reply).kind = "raise"
                  THEN HandleResponseErrors(reply)
                  ELSE RReturn("None"),
                  FALSE)

\* ---------------------------------------------------------- specifications
\* the steps inside Session.start and a normal Session.run, and the shells
WaitsNormal ==
    \/ StartExpectInit
    \/ StartExpectPs1
    \/ RunExpectCommand
    \/ RunExpectStatus
    \/ RunExpectStatusAgain
    \/ \E p \in Pids : ShellStep(p)

Waits ==
    \/ WaitsNormal
    \/ RunExpectDone
    \/ RunExpectPrompt

Next ==
    \/ \E n \in Names : CreateShell(n)
    \/ \E n \in Names, a \in ActionSet : RuntimeRun(n, a)
    \/ \E n \in Names : RuntimeClose(n)
    \/ SoloStart
    \/ \E a \in ActionSet : SoloRun(a)
    \/ SoloClose
    \/ Waits

Spec == Init /\ [][Next]_vars

\* one Session driven directly by its caller
NextSession ==
    \/ SoloStart
    \/ \E a \in ActionSet : SoloRun(a)
    \/ SoloClose
    \/ Waits

SpecSession == Init /\ [][NextSession]_vars

\* the registry driven by name, its sessions running plain commands
NextRuntime ==
    \/ \E n \in Names : CreateShell(n)
    \/ \E n \in Names, a \in RuntimeActions : RuntimeRun(n, a)
    \/ \E n \in Names : RuntimeClose(n)
    \/ WaitsNormal

SpecRuntime == Init /\ [][NextRuntime]_vars

\* the registry driven by two callers at once
NextThreads ==
    \/ \E t \in Threads, op \in {"create_shell", "close"}, n \in Names : ThreadCall(t, op, n)
    \/ \E t \in Threads : CreateAssert(t)
    \/ \E t \in Threads : CreateRegister(t)
    \/ \E t \in Threads : CreateStart(t)
    \/ \E t \in Threads : CloseLookup(t)
    \/ \E t \in Threads : CloseSession(t)
    \/ \E t \in Threads : CloseDel(t)

SpecThreads == Init /\ [][NextThreads]_vars

\* the RemoteRuntime client against a server that may answer anything
NextRemote ==
    \/ \E op \in RemoteOps, is_dir \in BOOLEAN : RemoteCall(op, is_dir)
    \/ \E reply \in Replies : IsAlive(reply)
    \/ \E reply \in Replies : CreateSession(reply)
    \/ \E reply \in Replies : Request(reply)
    \/ \E reply \in Replies : Upload(reply)
    \/ \E reply \in Replies : RemoteClose(reply)

SpecRemote == Init /\ [][NextRemote]_vars

TypeOK ==
    /\ Registered \subseteq Names
    /\ \A r \in Registered \cup {Solo} : Sess(r).shell \in {None} \cup Pids
    /\ pc \in {"idle", "start_init", "start_ps1", "run_cmd", "run_status",
               "run_status_again", "run_done", "run_prompt"}
    /\ \A p \in Pids : Len(procs[p].inq) <= MaxInq

\* ------------------------------------------------------------------ claims
RunOps == {"Session.run", "Runtime.run"}

StartOps == {"Session.start", "create_shell"}

\* the texts int() accepts among those a stream or a marker can hold
IntTokens == {"0", "1", "-100", "-200", "-300"}

\* int(s) succeeds: one integer, whitespace around it allowed
ParsesAsInt(s) == Len(Strip(s)) = 1 /\ Strip(s)[1] \in IntTokens

\* this step calls operation op on session r
Called(op, r) ==
    /\ pc = "idle"
    /\ \/ pc' = "idle" /\ ret' # ret /\ ret'.op = op /\ ret'.ref = r
       \/ pc' # "idle" /\ frame'.op = op /\ frame'.ref = r

\* the latest operation was a normal run whose wait for the command matched
CommandWaitMatched ==
    /\ pc = "idle"
    /\ ret.op \in RunOps
    /\ IsNormal(ret.act)
    /\ ret.resp.exit_code_raw \notin {<<"-100">>, <<"-300">>}
    /\ ret.resp.exc \notin {"OSError", "KeyError"}

\* C1: when a run on a started session, sent while the shell sat idle at its
\* prompt, times out, the normal run that follows it on that session returns
\* the output of its own command and that command's exit status.
C1_UsableAfterTimeout ==
    ( /\ pc = "idle"
      /\ ret.op \in RunOps
      /\ ret.prev = "run_timeout"
      /\ IsNormal(ret.act)
      /\ ret.act.expect = <<>>
      /\ ret.resp.kind = "return"
      /\ ret.resp.failure_reason = "" )
    => /\ ret.resp.output = CmdOutput(ret.act.command)
       /\ ret.resp.exit_code_raw = <<CmdStatus(ret.act.command)>>

C3_WaitsNeverRaise ==
    (ret.op \in StartOps \/ (ret.op \in RunOps /\ ret.sync))
    => ret.resp.kind # "raise"

\* C4: a run called on a Session that holds no shell returns the "-300"
\* Observation with no output and a reason, raises nothing, and leaves every
\* process and every session as it was.
C4_RunWithoutShell ==
    [][\A r \in Refs :
          ( /\ r = Solo \/ r \in Registered
            /\ Sess(r).shell = None
            /\ Called("Session.run", r) \/ Called("Runtime.run", r) )
          => /\ pc' = "idle"
             /\ ret'.resp.kind = "return"
             /\ ret'.resp.exit_code_raw = <<"-300">>
             /\ ret'.resp.output = <<>>
             /\ ret'.resp.failure_reason # ""
             /\ UNCHANGED <<procs, sessions, solo>>]_vars

C4_Witness ==
    /\ pc = "idle"
    /\ ret.op = "Session.run"
    /\ ret.prev = "closed"
    /\ ret.resp.exit_code_raw = <<"-300">>
    /\ solo.shell = None

\* C5: a run that follows a failed start on a session returns the "-300"
\* marker with a reason.
C5_FailedStartStaysUninitialized ==
    (pc = "idle" /\ ret.op \in RunOps /\ ret.prev = "start_failed")
    => /\ ret.resp.kind = "return"
       /\ ret.resp.exit_code_raw = <<"-300">>
       /\ ret.resp.failure_reason # ""

\* C6: a name whose session Runtime.close has closed is never registered
\* again.
C6_ClosedNameNeverReused ==
    \A n \in Names : last[n] = "closed" => n \notin Registered

\* C7: create_shell with a registered name raises AssertionError and leaves
\* the registry, its sessions and their processes as they were.
C7_DuplicateCreateRaises ==
    [][\A n \in Names :
          (n \in Registered /\ Called("create_shell", n))
          => /\ pc' = "idle"
             /\ ret'.resp = Raise("AssertionError")
             /\ UNCHANGED <<sessions, solo, procs>>]_vars

C7_Witness ==
    /\ pc = "idle"
    /\ ret.op = "create_shell"
    /\ ret.resp.exc = "AssertionError"
    /\ ret.ref \in Registered
    /\ sessions[ret.ref].shell # None
    /\ procs[sessions[ret.ref].shell].st = "alive"

\* C8: Runtime.run and Runtime.close with a name that is not registered raise
\* KeyError, return no result value, and leave the registry, its sessions and
\* their processes as they were.
C8_UnknownNameRaises ==
    [][\A n \in Names :
          (n \notin Registered /\ (Called("Runtime.run", n) \/ Called("Runtime.close", n)))
          => /\ pc' = "idle"
             /\ ret'.resp = Raise("KeyError")
             /\ UNCHANGED <<sessions, solo, procs>>]_vars

C8_Witness ==
    /\ pc = "idle"
    /\ ret.op = "Runtime.run"
    /\ ret.resp.exc = "KeyError"
    /\ ret.ref \notin Registered
    /\ Registered # {}

\* C9: once Runtime.close has been called on a registered name, the name is
\* no longer registered, whatever the session's close did.
C9_CloseAlwaysRemoves ==
    (pc = "idle" /\ ret.op = "Runtime.close" /\ ret.resp.exc # "KeyError")
    => ret.ref \notin Registered

\* C10: Session.close on a Session without a shell returns CloseResponse and
\* changes nothing, and every close that returns CloseResponse leaves the
\* Session without a shell.
C10_CloseIdempotent ==
    [][Called("Session.close", Solo)
          => /\ ret'.resp = CloseResponse => solo'.shell = None
             /\ solo.shell = None
                   => /\ ret'.resp = CloseResponse
                      /\ UNCHANGED <<solo, procs, sessions>>]_vars

C10_Witness ==
    /\ pc = "idle"
    /\ ret.op = "Session.close"
    /\ ret.prev = "closed"
    /\ ret.resp = CloseResponse
    /\ solo.shell = None

\* the program that holds the terminal once the shell has read its pending lines
RECURSIVE EndMode(_, _)
EndMode(mode, inq) ==
    IF inq = <<>> THEN mode
    ELSE EndMode(IF mode = "sub" THEN (IF Head(inq) = "quit" THEN "bash" ELSE "sub")
                 ELSE (IF Head(inq) = "sub" THEN "sub" ELSE "bash"),
                 Tail(inq))

\* the latest operation was a run that returned an Observation without a
\* failure_reason
RunSucceeded ==
    /\ pc = "idle"
    /\ ret.op \in RunOps
    /\ ret.resp.kind = "return"
    /\ ret.resp.failure_reason = ""

\* C16: when an interactive-quit run has returned its Observation, the stream
\* holds nothing unread and the shell nothing pending, also when the
\* sub-program left a duplicate prompt; the normal run that follows returns an
\* output without prompt or end-marker, the output of its own command.
C16_QuitLeavesNoResidue ==
    /\ (RunSucceeded /\ ret.act.is_interactive_quit)
          => /\ procs[Sess(ret.ref).shell].out = <<>>
             /\ procs[Sess(ret.ref).shell].inq = <<>>
    /\ (RunSucceeded /\ IsNormal(ret.act) /\ ret.prev = "run_quit")
          => /\ Range(ret.resp.output) \cap {PS1, DRE} = {}
             /\ ret.act.expect = <<>> => ret.resp.output = CmdOutput(ret.act.command)

\* C18: an interactive-command run whose command wait matches ends in that
\* step with nothing sent after the command, exit_code_raw "0" and no
\* failure_reason, and the sub-program holds the terminal once the shell has
\* read what is pending; an interactive-quit run that follows it and returns
\* its Observation leaves the shell idle at its sentinel prompt.
C18_InteractiveCommand ==
    /\ [][( /\ pc = "run_cmd"
            /\ frame.act.is_interactive_command
            /\ ~frame.act.is_interactive_quit
            /\ pc' # "run_cmd"
            /\ ret'.resp.exit_code_raw # <<"-100">> )
          => /\ pc' = "idle"
             /\ ret'.resp.kind = "return"
             /\ ret'.resp.exit_code_raw = <<"0">>
             /\ ret'.resp.failure_reason = ""
             /\ procs'[Sess(frame.ref).shell].inq = procs[Sess(frame.ref).shell].inq
             /\ EndMode(procs'[Sess(frame.ref).shell].mode,
                        procs'[Sess(frame.ref).shell].inq) = "sub"]_vars
    /\ []((RunSucceeded /\ ret.act.is_interactive_quit /\ ret.prev = "run_interactive")
             => Sync(Sess(ret.ref).shell))

\* the registered names whose Session holds process p
Holders(p) == {n \in Registered : sessions[n].shell = p}

\* C19: between and inside sequential create_shell, run and close calls, every
\* shell process that was spawned and has not been terminated is held by
\* exactly one Session, and that Session is in the registry.
C19_NoOrphanedProcess ==
    \A p \in Pids : procs[p].st = "alive" => Cardinality(Holders(p)) = 1

C19_Witness ==
    /\ pc = "idle"
    /\ ret.op = "Runtime.close"
    /\ ret.resp.exc = "ExceptionPexpect"
    /\ \A p \in Pids : procs[p].st = "alive"
    /\ \E n \in Registered : last[n] = "start_failed"

\* C20: the registered names are exactly those whose create_shell was
\* accepted and whose close has not completed since, whether the start is
\* still running, succeeded or failed; and create_shell with a name whose
\* start failed raises AssertionError.
C20_RegistryTracksAccepted ==
    /\ [](\A n \in Names :
             n \in Registered
             <=> \/ last[n] \notin {"none", "closed"}
                 \/ pc # "idle" /\ frame.op = "create_shell" /\ frame.ref = n)
    /\ [][\A n \in Names :
             (last[n] = "start_failed" /\ Called("create_shell", n))
             => /\ ret'.resp = Raise("AssertionError")
                /\ n \in Registered']_vars

C20_Witness ==
    /\ pc = "idle"
    /\ ret.op = "create_shell"
    /\ ret.resp = Raise("AssertionError")
    /\ ret.prev = "start_failed"
    /\ ret.ref \in Registered

\* C17: when callers interleave inside create_shell and close, the step that
\* registers a Session (line 99) never finds its name registered: no
\* registered Session is replaced by another.
C17_RegistryGuarded ==
    [][\A t \in Threads :
          (threads[t].pc = "register" /\ threads'[t].pc = "start")
          => threads[t].name \notin Registered]_vars

\* the RemoteRuntime method that ended last
Ended(op) == remote.pc = "idle" /\ remote.ret.op = op

\* the class_path names a class the client process can find
Resolvable(cp) ==
    /\ Rpartition(cp).module \in Modules
    /\ Rpartition(cp).exc_name \in Attrs(Rpartition(cp).module)

\* C11: is_alive against an unreachable host, or with a response whose body
\* cannot be parsed, returns IsAliveResponse with is_alive false and a
\* non-empty message, and raises nothing.
C11_ProbeFailureIsNegative ==
    (Ended("is_alive") /\ (~remote.ret.reply.connected \/ remote.ret.reply.body = "invalid"))
    => /\ remote.ret.resp.kind = "return"
       /\ remote.ret.resp.type = "IsAliveResponse"
       /\ ~remote.ret.resp.is_alive
       /\ remote.ret.resp.message # ""

C11_Witness ==
    /\ Ended("is_alive")
    /\ ~remote.ret.reply.connected
    /\ remote.ret.resp = IsAliveResponse(FALSE, "Failed to connect")

\* C12, for the class_paths that resolve: is_alive that receives status 511
\* with a swerexception body raises the reconstructed error, an instance of
\* the named class with the carried message, instead of returning a liveness
\* result.
C12_ProbeReraisesTransported ==
    (Ended("is_alive") /\ remote.ret.reply.status = Reserved
        /\ Resolvable(remote.ret.reply.class_path))
    => remote.ret.resp =
          RRaise(Rpartition(remote.ret.reply.class_path).exc_name, remote.ret.reply.message)

\* C13, first clause, for the class_paths that resolve: every request method
\* that receives status 511 raises an instance of the class the transported
\* failure names, with the carried message, never the generic transport error.
C13_ReservedStatusReraised ==
    (remote.pc = "idle" /\ remote.ret.op \in RemoteOps \ {"is_alive"}
        /\ remote.ret.reply.status = Reserved
        /\ Resolvable(remote.ret.reply.class_path))
    => remote.ret.resp =
          RRaise(Rpartition(remote.ret.reply.class_path).exc_name, remote.ret.reply.message)

\* C14: a transported failure received by a method that reconstructs it is
\* raised as the class its class_path names when that resolves, as
\* SweRexception otherwise, with the original message in both cases.
C14_UnresolvedIsGeneric ==
    (remote.pc = "idle" /\ remote.ret.op \in PlainOps \cup {"upload", "close"}
        /\ remote.ret.reply.status = Reserved)
    => /\ remote.ret.resp.kind = "raise"
       /\ remote.ret.resp.message = remote.ret.reply.message
       /\ remote.ret.resp.exc =
             IF Resolvable(remote.ret.reply.class_path)
             THEN Rpartition(remote.ret.reply.class_path).exc_name
             ELSE "SweRexception"

\* C15: a temporary bundle exists only while an upload of a directory is in
\* flight; when upload has ended, however it ended, no bundle exists, and the
\* upload made one exactly if its source was a directory.
C15_BundleRemoved ==
    /\ remote.bundle => (remote.pc = "wait" /\ remote.op = "upload" /\ remote.is_dir)
    /\ Ended("upload") => (~remote.bundle /\ (remote.ret.bundled <=> remote.ret.is_dir))

C15_Witness ==
    /\ Ended("upload")
    /\ remote.ret.is_dir
    /\ remote.ret.bundled
    /\ remote.ret.resp.kind = "raise"
    /\ remote.ret.resp.exc = "ConnectionError"
    /\ ~remote.bundle

====
